---- MODULE Spec2Model ----
(***************************************************************************)
(* Network-synchronisation core of the TIME Coin wallet GUI.               *)
(*                                                                         *)
(* The repository keeps the Rust code of wallet-gui/src/network.rs and     *)
(* wallet-gui/src/main.rs as the replacement texts of its patch scripts    *)
(* (src/wallet-gui/*.py).  Where several scripts rewrite the same method,  *)
(* the model follows the text that the last rewrite leaves in the file:    *)
(*   fetch_blockchain_info     add_fetch_method.py / fix_peer_query.py     *)
(*   bootstrap (discovery)     fix_sync_logic.py  new_bootstrap            *)
(*   bootstrap (fetch + fold)  fix_missing_api.py / add_blockchain_fetch.py*)
(*                             (replaces the fold of fix_sync_logic.py)    *)
(*   refresh_blockchain_state  fix_sync_logic.py                           *)
(*   start_sync                fix_start_sync.py / add_fetch_method.py     *)
(*   is_synced                 fix_sync_logic.py                           *)
(*   bootstrap task, reader    final_fix.py, update_status_bar.py          *)
(* The status bar of fix_missing_api.py reads a subset (peer_count and the  *)
(* two heights) of what the reader of update_status_bar.py reads; the      *)
(* reader modelled is the larger one.  SpecAppErr runs the task against    *)
(* the bootstrap of fix_sync_logic.py, whose failed fetch returns Err.     *)
(*                                                                         *)
(* manual_fix.py and add_qr.py are themselves programs, line filters run   *)
(* on main.rs; SpecManualFix and SpecAddQr model their loops.              *)
(*                                                                         *)
(* sync_progress (f32, only ever 0.0 or 1.0 in the code) is kept in        *)
(* percent: 0 and 100.                                                     *)
(***************************************************************************)
EXTENDS Integers, Sequences, FiniteSets, TLC

\* ------------------------------------------------------------------ bounds
MaxPeers == 2
MaxHeight == 2
MaxSessions == 2
MaxLines == 5

\* ------------------------------------------------------- program constants
StatusPort == 24101
ProgressNone == 0
ProgressFull == 100

\* ------------------------------------------------------------ input domains
\* A peer address is the list of its ':'-separated segments.
Addrs == { <<"h1", "24100">>, <<"h2">> }

RECURSIVE SeqsUpTo(_, _)
SeqsUpTo(S, n) ==
  IF n = 0 THEN { <<>> }
  ELSE LET shorter == SeqsUpTo(S, n - 1)
       IN  shorter \cup { Append(s, x) : s \in { t \in shorter : Len(t) = n - 1 }, x \in S }

PeerLists == SeqsUpTo(Addrs, MaxPeers)
Heights == 0 .. MaxHeight
Endpoints == { "e1", "e2" }

\* What one status request can come back with.
FailKinds == { "timeout", "transport", "status", "malformed" }
Responses ==
  [ kind : FailKinds, height : {0} ] \cup [ kind : {"ok"}, height : Heights ]

\* What fetch_peers can come back with.
DiscoveryOutcomes ==
  { [ ok |-> FALSE, peers |-> <<>> ] } \cup [ ok : {TRUE}, peers : PeerLists ]

\* The application is run with two configured addnode lists and three
\* directory answers.
AppNodeLists == { <<>>, << <<"h1", "24100">>, <<"h2">> >> }
AppDiscoveries ==
  { [ ok |-> FALSE, peers |-> <<>> ],
    [ ok |-> TRUE, peers |-> <<>> ],
    [ ok |-> TRUE, peers |-> << <<"h2">> >> ] }

ErrNoPeersConnected == "No peers connected"
ErrNoPeersResponded == "No peers responded with blockchain info"
ErrClientBuild == "Failed to create HTTP client"

NoDiscovery == [ ok |-> FALSE, peers |-> <<>> ]
NoResult == [ kind |-> "none", height |-> 0, err |-> "" ]

\* ------------------------------------------------------------------- state
VARIABLES
  net,      \* the NetworkManager the methods are called on
  pc,       \* position of the running method: "idle", "discover", "fetch", "fold"
  op,       \* the running (or last) method
  nodes,    \* bootstrap_nodes argument of the last bootstrap
  disc,     \* outcome of fetch_peers in the last bootstrap
  idx,      \* 1-based position of the fetch loop in connected_peers
  log,      \* requests issued by the current (or last) fetch, in order
  fres,     \* value returned by the last fetch_blockchain_info
  ret,      \* value returned by the last method: "none", "Ok" or "Err"
  err,      \* error text of the last method when ret = "Err"
  pre,      \* the manager as it was when the last method was called
  fetched,  \* a status fetch has succeeded on this manager
  folded,   \* a fetched status has been folded into this manager
  \* --- the wallet application (main.rs): sessions, bootstrap tasks, reader
  arc,      \* per session: the NetworkManager inside Arc<Mutex<..>>
  lock,     \* per session: the Mutex: "free", held by "task" or "reader", "poisoned"
  task,     \* per session: the bootstrap task spawned with the session
  reader,   \* the status bar: position in the frame and the snapshot read
  hist,     \* per session: the complete managers the Mutex has held
  \* --- the line-filter scripts run on main.rs (manual_fix.py, add_qr.py)
  script    \* the running script: its input lines, new_lines, loop index, file written

mvars == << net, pc, op, nodes, disc, idx, log, fres, ret, err, pre, fetched, folded >>
avars == << arc, lock, task, reader, hist >>
vars == << mvars, avars, script >>

\* -------------------------------------------------------- NetworkManager
\* (variant) a new manager counts the genesis block as known
new_at_genesis(api_endpoint) ==
  [ api_endpoint          |-> api_endpoint,
    connected_peers       |-> <<>>,
    is_syncing            |-> FALSE,
    sync_progress         |-> ProgressNone,
    current_block_height  |-> 1,
    network_block_height  |-> 1 ]

new(api_endpoint) ==
  [ api_endpoint          |-> api_endpoint,
    connected_peers       |-> <<>>,
    is_syncing            |-> FALSE,
    sync_progress         |-> ProgressNone,
    current_block_height  |-> 0,
    network_block_height  |-> 0 ]

add_peer(m, node) == [ m EXCEPT !.connected_peers = Append(@, node) ]

RECURSIVE add_bootstrap_nodes(_, _)
add_bootstrap_nodes(m, ns) ==
  IF ns = <<>> THEN m
  ELSE add_bootstrap_nodes(add_peer(m, Head(ns)), Tail(ns))

\* (variant) discovery results merged with the fallback nodes
bootstrap_populate_merge(m, d, ns) ==
  IF d.ok THEN add_bootstrap_nodes([ m EXCEPT !.connected_peers = d.peers ], ns)
  ELSE add_bootstrap_nodes(m, ns)

bootstrap_populate(m, d, ns) ==
  IF d.ok THEN [ m EXCEPT !.connected_peers = d.peers ]
  ELSE add_bootstrap_nodes(m, ns)

peer_ip(address) == Head(address)

status_url(address) ==
  [ host |-> peer_ip(address), port |-> StatusPort, path |-> "/blockchain/info" ]

\* (variant) is_synced as it was before the height check was added
is_synced_no_height(m) == ~m.is_syncing /\ m.sync_progress >= ProgressFull

is_synced(m) ==
  ~m.is_syncing /\ m.sync_progress >= ProgressFull /\ m.current_block_height > 0

peer_count(m) == Len(m.connected_peers)

\* (variant) success folds the network height only
bootstrap_fold_network_only(m, r) ==
  IF r.kind = "Ok"
  THEN [ m EXCEPT !.network_block_height = r.height,
                  !.is_syncing = FALSE,
                  !.sync_progress = ProgressFull ]
  ELSE [ m EXCEPT !.is_syncing = FALSE,
                  !.sync_progress = ProgressFull,
                  !.current_block_height = 0,
                  !.network_block_height = 0 ]

\* (variant) failure leaves sync_progress as it was
bootstrap_fold_hold_progress(m, r) ==
  IF r.kind = "Ok"
  THEN [ m EXCEPT !.network_block_height = r.height,
                  !.current_block_height = r.height,
                  !.is_syncing = FALSE,
                  !.sync_progress = ProgressFull ]
  ELSE [ m EXCEPT !.is_syncing = FALSE,
                  !.current_block_height = 0,
                  !.network_block_height = 0 ]

\* (variant) failure does not reset the heights to the zero sentinel
bootstrap_fold_keep_heights(m, r) ==
  IF r.kind = "Ok"
  THEN [ m EXCEPT !.network_block_height = r.height,
                  !.current_block_height = r.height,
                  !.is_syncing = FALSE,
                  !.sync_progress = ProgressFull ]
  ELSE [ m EXCEPT !.is_syncing = FALSE,
                  !.sync_progress = ProgressFull ]

bootstrap_fold(m, r) ==
  IF r.kind = "Ok"
  THEN [ m EXCEPT !.network_block_height = r.height,
                  !.current_block_height = r.height,
                  !.is_syncing = FALSE,
                  !.sync_progress = ProgressFull ]
  ELSE [ m EXCEPT !.is_syncing = FALSE,
                  !.sync_progress = ProgressFull,
                  !.current_block_height = 0,
                  !.network_block_height = 0 ]

\* bootstrap as fix_sync_logic.py leaves it, before fix_missing_api.py makes a
\* failed fetch non-fatal: the Err arm sets is_syncing = true and
\* sync_progress = 0.0, leaves the heights, and returns Err.
bootstrap_fold_propagate(m, r) ==
  IF r.kind = "Ok"
  THEN [ m EXCEPT !.network_block_height = r.height,
                  !.current_block_height = r.height,
                  !.is_syncing = FALSE,
                  !.sync_progress = ProgressFull ]
  ELSE [ m EXCEPT !.is_syncing = TRUE,
                  !.sync_progress = ProgressNone ]

\* return Err(format!("Failed to sync blockchain: {}", e))  /  Ok(())
bootstrap_result_propagate(r) == IF r.kind = "Ok" THEN "Ok" ELSE "Err"

\* (variant) a failed fetch is fatal to bootstrap
bootstrap_result_fatal(r) == IF r.kind = "Ok" THEN "Ok" ELSE "Err"

\* (variant) the exhausted peer list is passed on to the caller of bootstrap
bootstrap_result_exhausted(r) ==
  IF r.kind = "Err" /\ r.err = ErrNoPeersResponded THEN "Err" ELSE "Ok"

bootstrap_result(r) == "Ok"

\* (variant) a failed refresh resets the heights as a failed start_sync does
refresh_fold_reset(m, r) ==
  IF r.kind = "Ok"
  THEN [ m EXCEPT !.network_block_height = r.height,
                  !.current_block_height = r.height,
                  !.is_syncing = FALSE,
                  !.sync_progress = ProgressFull ]
  ELSE [ m EXCEPT !.current_block_height = 0,
                  !.network_block_height = 0 ]

\* (variant) a successful refresh drops the peers that did not answer first
refresh_fold_prune(m, r) ==
  IF r.kind = "Ok"
  THEN [ m EXCEPT !.network_block_height = r.height,
                  !.current_block_height = r.height,
                  !.is_syncing = FALSE,
                  !.sync_progress = ProgressFull,
                  !.connected_peers = <<Head(@)>> ]
  ELSE m

\* (variant) a successful refresh updates the heights and nothing else
refresh_fold_heights_only(m, r) ==
  IF r.kind = "Ok"
  THEN [ m EXCEPT !.network_block_height = r.height,
                  !.current_block_height = r.height ]
  ELSE m

refresh_fold(m, r) ==
  IF r.kind = "Ok"
  THEN [ m EXCEPT !.network_block_height = r.height,
                  !.current_block_height = r.height,
                  !.is_syncing = FALSE,
                  !.sync_progress = ProgressFull ]
  ELSE m

refresh_result(r) == IF r.kind = "Ok" THEN "Ok" ELSE "Err"

\* (variant) progress is marked unknown while the sync runs
start_sync_begin_unknown(m) ==
  [ m EXCEPT !.is_syncing = TRUE, !.sync_progress = -1 ]

start_sync_begin(m) ==
  [ m EXCEPT !.is_syncing = TRUE, !.sync_progress = ProgressNone ]

\* (variant) a failed start_sync leaves the heights known before
start_sync_fold_keep_heights(m, r) ==
  IF r.kind = "Ok"
  THEN [ m EXCEPT !.network_block_height = r.height,
                  !.current_block_height = r.height,
                  !.is_syncing = FALSE,
                  !.sync_progress = ProgressFull ]
  ELSE [ m EXCEPT !.is_syncing = FALSE,
                  !.sync_progress = ProgressNone ]

start_sync_fold(m, r) ==
  IF r.kind = "Ok"
  THEN [ m EXCEPT !.network_block_height = r.height,
                  !.current_block_height = r.height,
                  !.is_syncing = FALSE,
                  !.sync_progress = ProgressFull ]
  ELSE [ m EXCEPT !.is_syncing = FALSE,
                  !.sync_progress = ProgressNone,
                  !.current_block_height = 0,
                  !.network_block_height = 0 ]

start_sync_result(r) == IF r.kind = "Ok" THEN "Ok" ELSE "Err"

\* ------------------------------------------------- fetch_blockchain_info
\* One iteration of `for peer in &self.connected_peers`: the request that
\* is sent to the peer at position i, with the response it came back with.
request(peers, i, resp) ==
  [ peer |-> i, url |-> status_url(peers[i]), resp |-> resp ]

\* (variant) the loop goes on after a success: the last success wins
fetch_iteration_continue(i, resp) ==
  IF resp.kind = "ok"
  THEN [ returned |-> FALSE, res |-> [ kind |-> "Ok", height |-> resp.height, err |-> "" ], idx |-> i + 1 ]
  ELSE [ returned |-> FALSE, res |-> NoResult, idx |-> i + 1 ]

\* (variant) a peer that failed is asked again
fetch_iteration_retry(i, resp) ==
  IF resp.kind = "ok"
  THEN [ returned |-> TRUE, res |-> [ kind |-> "Ok", height |-> resp.height, err |-> "" ], idx |-> i ]
  ELSE [ returned |-> FALSE, res |-> NoResult, idx |-> i ]

\* The `match client.get(&url).send().await` of one iteration: return on a
\* success status with a body that parses, `continue` on anything else.
fetch_iteration(i, resp) ==
  IF resp.kind = "ok"
  THEN [ returned |-> TRUE, res |-> [ kind |-> "Ok", height |-> resp.height, err |-> "" ], idx |-> i ]
  ELSE [ returned |-> FALSE, res |-> NoResult, idx |-> i + 1 ]

\* (variant) the failure is unwrapped where it happens instead of returned
fetch_err_unwrap(text) == [ kind |-> "Panic", height |-> 0, err |-> text ]

fetch_err(text) == [ kind |-> "Err", height |-> 0, err |-> text ]

\* ----------------------------------------------------------------- Init
NoSnapshot ==
  [ valid |-> FALSE, session |-> 0, peers |-> 0, current |-> 0, network |-> 0,
    is_syncing |-> FALSE, progress |-> 0, synced |-> FALSE ]

MInit ==
  /\ net = new("e1")
  /\ pc = "idle"
  /\ op = "none"
  /\ nodes = <<>>
  /\ disc = NoDiscovery
  /\ idx = 1
  /\ log = <<>>
  /\ fres = NoResult
  /\ ret = "none"
  /\ err = ""
  /\ pre = new("e1")
  /\ fetched = FALSE
  /\ folded = FALSE

AInit ==
  /\ arc = <<>>
  /\ lock = <<>>
  /\ task = <<>>
  /\ hist = <<>>
  /\ reader = [ pc |-> "idle", snap |-> NoSnapshot ]

\* no line-filter script is running
NoScript ==
  [ name |-> "none", pc |-> "done", lines |-> <<>>, new_lines |-> <<>>,
    i |-> 0, skip_until |-> -1, main_rs |-> <<>> ]

SInit == script = NoScript

Init == MInit /\ AInit /\ SInit

\* -------------------------------------------------------------- actions
\* bootstrap(&mut self, bootstrap_nodes): entry, up to the await of fetch_peers
CallBootstrap ==
  /\ pc = "idle"
  /\ \E ns \in PeerLists :
       /\ Len(net.connected_peers) + Len(ns) <= MaxPeers
       /\ nodes' = ns
  /\ pc' = "discover"
  /\ op' = "bootstrap"
  /\ pre' = net
  /\ disc' = NoDiscovery
  /\ log' = <<>>
  /\ fres' = NoResult
  /\ ret' = "none"
  /\ err' = ""
  /\ idx' = 1
  /\ UNCHANGED << net, fetched, folded, avars, script >>

\* fetch_peers returns: the registry is replaced, or the fallback nodes added
BootstrapDiscovered ==
  /\ pc = "discover"
  /\ \E d \in DiscoveryOutcomes :
       /\ disc' = d
       /\ net' = bootstrap_populate(net, d, nodes)
  /\ pc' = "fetch"
  /\ idx' = 1
  /\ UNCHANGED << op, nodes, log, fres, ret, err, pre, fetched, folded, avars, script >>

\* refresh_blockchain_state(&mut self)
CallRefresh ==
  /\ pc = "idle"
  /\ op' = "refresh"
  /\ pre' = net
  /\ log' = <<>>
  /\ fres' = NoResult
  /\ idx' = 1
  /\ IF net.connected_peers = <<>>
     THEN /\ ret' = "Err"
          /\ err' = ErrNoPeersConnected
          /\ pc' = "idle"
     ELSE /\ ret' = "none"
          /\ err' = ""
          /\ pc' = "fetch"
  /\ nodes' = <<>>
  /\ disc' = NoDiscovery
  /\ UNCHANGED << net, fetched, folded, avars, script >>

\* start_sync(&mut self)
CallStartSync ==
  /\ pc = "idle"
  /\ op' = "start_sync"
  /\ pre' = net
  /\ log' = <<>>
  /\ fres' = NoResult
  /\ idx' = 1
  /\ IF net.connected_peers = <<>>
     THEN /\ ret' = "Err"
          /\ err' = ErrNoPeersConnected
          /\ pc' = "idle"
          /\ net' = net
     ELSE /\ ret' = "none"
          /\ err' = ""
          /\ pc' = "fetch"
          /\ net' = start_sync_begin(net)
  /\ nodes' = <<>>
  /\ disc' = NoDiscovery
  /\ UNCHANGED << fetched, folded, avars, script >>

\* fetch_blockchain_info(&self) called on its own
CallFetch ==
  /\ pc = "idle"
  /\ op' = "fetch"
  /\ pre' = net
  /\ log' = <<>>
  /\ fres' = NoResult
  /\ idx' = 1
  /\ ret' = "none"
  /\ err' = ""
  /\ pc' = "fetch"
  /\ nodes' = <<>>
  /\ disc' = NoDiscovery
  /\ UNCHANGED << net, fetched, folded, avars, script >>

\* One loop iteration: the client is built, the request sent and answered.
FetchPeer ==
  /\ pc = "fetch"
  /\ idx <= Len(net.connected_peers)
  /\ \E resp \in Responses :
       LET it == fetch_iteration(idx, resp)
       IN  /\ log' = Append(log, request(net.connected_peers, idx, resp))
           /\ fres' = it.res
           /\ idx' = it.idx
           /\ pc' = IF it.returned THEN "fold" ELSE "fetch"
  /\ UNCHANGED << net, op, nodes, disc, ret, err, pre, fetched, folded, avars, script >>

\* One loop iteration in which Client::builder().build() fails: `?` returns.
FetchClientBuildFails ==
  /\ pc = "fetch"
  /\ idx <= Len(net.connected_peers)
  /\ fres' = fetch_err(ErrClientBuild)
  /\ pc' = "fold"
  /\ UNCHANGED << net, op, nodes, disc, idx, log, ret, err, pre, fetched, folded, avars, script >>

\* (variant) an empty registry answers with a default status
FetchExhaustedDefault ==
  /\ pc = "fetch"
  /\ idx > Len(net.connected_peers)
  /\ fres' = IF net.connected_peers = <<>>
             THEN [ kind |-> "Ok", height |-> 0, err |-> "" ]
             ELSE fetch_err(ErrNoPeersResponded)
  /\ pc' = "fold"
  /\ UNCHANGED << net, op, nodes, disc, idx, log, ret, err, pre, fetched, folded, avars, script >>

\* The loop has run off the end of connected_peers.
FetchExhausted ==
  /\ pc = "fetch"
  /\ idx > Len(net.connected_peers)
  /\ fres' = fetch_err(ErrNoPeersResponded)
  /\ pc' = "fold"
  /\ UNCHANGED << net, op, nodes, disc, idx, log, ret, err, pre, fetched, folded, avars, script >>

\* The caller's `match self.fetch_blockchain_info().await`
BootstrapFold ==
  /\ pc = "fold" /\ op = "bootstrap"
  /\ net' = bootstrap_fold(net, fres)
  /\ ret' = bootstrap_result(fres)
  /\ err' = ""
  /\ fetched' = (fetched \/ fres.kind = "Ok")
  /\ folded' = (folded \/ fres.kind = "Ok")
  /\ pc' = "idle"
  /\ UNCHANGED << op, nodes, disc, idx, log, fres, pre, avars, script >>

RefreshFold ==
  /\ pc = "fold" /\ op = "refresh"
  /\ net' = refresh_fold(net, fres)
  /\ ret' = refresh_result(fres)
  /\ err' = IF fres.kind = "Ok" THEN "" ELSE "Failed to refresh blockchain"
  /\ fetched' = (fetched \/ fres.kind = "Ok")
  /\ folded' = (folded \/ fres.kind = "Ok")
  /\ pc' = "idle"
  /\ UNCHANGED << op, nodes, disc, idx, log, fres, pre, avars, script >>

StartSyncFold ==
  /\ pc = "fold" /\ op = "start_sync"
  /\ net' = start_sync_fold(net, fres)
  /\ ret' = start_sync_result(fres)
  /\ err' = IF fres.kind = "Ok" THEN "" ELSE "Failed to sync blockchain"
  /\ fetched' = (fetched \/ fres.kind = "Ok")
  /\ folded' = (folded \/ fres.kind = "Ok")
  /\ pc' = "idle"
  /\ UNCHANGED << op, nodes, disc, idx, log, fres, pre, avars, script >>

FetchReturn ==
  /\ pc = "fold" /\ op = "fetch"
  /\ ret' = IF fres.kind = "Ok" THEN "Ok" ELSE "Err"
  /\ err' = fres.err
  /\ fetched' = (fetched \/ fres.kind = "Ok")
  /\ pc' = "idle"
  /\ UNCHANGED << net, op, nodes, disc, idx, log, fres, pre, folded, avars, script >>

\* =================================================== the application (main.rs)
\* (variant) the swap moves the endpoint and the registry only
ManagerFieldsRegistryOnly == << "api_endpoint", "connected_peers" >>

\* Fields of NetworkManager in declaration order: `*net = temp_net` moves them.
ManagerFields ==
  << "api_endpoint", "connected_peers", "is_syncing", "sync_progress",
     "current_block_height", "network_block_height" >>

Sessions == 1 .. Len(arc)
current_session == Len(arc)

NoManager == new("")

\* Wallet unlocked or created: WalletConfig::load, a fresh
\* Arc<Mutex<NetworkManager>>, and the bootstrap task spawned on a clone of it.
NewSession ==
  /\ Len(arc) < MaxSessions
  /\ reader.pc = "idle"
  /\ \E api \in Endpoints, ns \in AppNodeLists :
       /\ arc' = Append(arc, new(api))
       /\ hist' = Append(hist, { new(api) })
       /\ task' = Append(task,
            [ pc |-> "start", nodes |-> ns, disc |-> NoDiscovery, temp |-> NoManager,
              idx |-> 1, fres |-> NoResult, result |-> "none", wpos |-> 1 ])
  /\ lock' = Append(lock, "free")
  /\ UNCHANGED << reader, mvars, script >>

\* (variant) the Mutex is not waited for
lock_not_waited(s) == TRUE

lock_acquirable(s) == lock[s] = "free"

\* (variant) the task finds the manager through the application when it runs
net_mgr_of_app(s) == current_session

\* (variant) one manager is shared by the tasks of every session
net_mgr_shared(s) == 1

\* let net_mgr = network_mgr.clone(): the Arc the task of session s was given
net_mgr(s) == s

\* net_mgr.lock() returns: with the guard, or with the poison error
lock_answers(s) == lock_acquirable(net_mgr(s)) \/ lock[net_mgr(s)] = "poisoned"

\* .unwrap() on what lock() returned: the task panics on a poisoned Mutex
lock_unwrap(s, continue) ==
  IF lock[net_mgr(s)] = "poisoned" THEN "panicked" ELSE continue

\* (variant) the guard taken at the start of the task lives on while it bootstraps
endpoint_guard_kept(s) == [ lock EXCEPT ![net_mgr(s)] = "task" ]

\* The guard `net` is dropped at the end of the block that reads api_endpoint.
endpoint_guard_dropped(s) == lock

\* (variant) the endpoint is taken from the manager the application holds now
temp_net_endpoint_of_app(s) == arc[current_session].api_endpoint

\* net.api_endpoint().to_string(): a copy of the endpoint of the task's manager
temp_net_endpoint(s) == arc[net_mgr(s)].api_endpoint

\* let api_endpoint = { let net = net_mgr.lock().unwrap(); net.api_endpoint().to_string() };
\* let mut temp_net = NetworkManager::new(api_endpoint);  temp_net.bootstrap(..) begins
TaskReadEndpoint(s) ==
  /\ task[s].pc = "start"
  /\ lock_answers(s)
  /\ task' = [ task EXCEPT ![s].temp = new(temp_net_endpoint(s)),
                           ![s].pc = lock_unwrap(s, "discover") ]
  /\ lock' = endpoint_guard_dropped(s)
  /\ UNCHANGED << arc, reader, hist, mvars, script >>

\* temp_net.bootstrap: fetch_peers has returned
TaskDiscovered(s) ==
  /\ task[s].pc = "discover"
  /\ \E d \in AppDiscoveries :
       task' = [ task EXCEPT ![s].disc = d,
                             ![s].temp = bootstrap_populate(task[s].temp, d, task[s].nodes),
                             ![s].idx = 1,
                             ![s].pc = "fetch" ]
  /\ UNCHANGED << arc, lock, reader, hist, mvars, script >>

\* temp_net.fetch_blockchain_info: one loop iteration
TaskFetchPeer(s) ==
  /\ task[s].pc = "fetch"
  /\ task[s].idx <= Len(task[s].temp.connected_peers)
  /\ \E resp \in Responses :
       LET it == fetch_iteration(task[s].idx, resp)
       IN  task' = [ task EXCEPT ![s].fres = it.res,
                                 ![s].idx = it.idx,
                                 ![s].pc = IF it.returned THEN "fold" ELSE "fetch" ]
  /\ UNCHANGED << arc, lock, reader, hist, mvars, script >>

TaskFetchClientBuildFails(s) ==
  /\ task[s].pc = "fetch"
  /\ task[s].idx <= Len(task[s].temp.connected_peers)
  /\ task' = [ task EXCEPT ![s].fres = fetch_err(ErrClientBuild),
                           ![s].pc = "fold" ]
  /\ UNCHANGED << arc, lock, reader, hist, mvars, script >>

TaskFetchExhausted(s) ==
  /\ task[s].pc = "fetch"
  /\ task[s].idx > Len(task[s].temp.connected_peers)
  /\ task' = [ task EXCEPT ![s].fres = fetch_err(ErrNoPeersResponded),
                           ![s].pc = "fold" ]
  /\ UNCHANGED << arc, lock, reader, hist, mvars, script >>

\* (variant) the temporary manager is moved into the shared one on both arms
task_match_always_swap(r) == "swap"

\* `match temp_net.bootstrap(..).await { Ok(_) => { lock; *net = temp_net }
\*  Err(e) => log::error!(..) }`: where the task goes on the result.
task_match(r) == IF r = "Ok" THEN "swap" ELSE "done"

\* temp_net.bootstrap returns; `match ... { Ok(_) => swap, Err(e) => log }`
TaskBootstrapReturns(s) ==
  /\ task[s].pc = "fold"
  /\ LET r == bootstrap_result(task[s].fres)
     IN  task' = [ task EXCEPT ![s].temp = bootstrap_fold(task[s].temp, task[s].fres),
                               ![s].result = r,
                               ![s].pc = task_match(r) ]
  /\ UNCHANGED << arc, lock, reader, hist, mvars, script >>

\* let mut net = net_mgr.lock().unwrap();
TaskSwapLock(s) ==
  /\ task[s].pc = "swap"
  /\ lock_answers(s)
  /\ lock' = IF lock[net_mgr(s)] = "poisoned" THEN lock
             ELSE [ lock EXCEPT ![net_mgr(s)] = "task" ]
  /\ task' = [ task EXCEPT ![s].pc = lock_unwrap(s, "write"), ![s].wpos = 1 ]
  /\ UNCHANGED << arc, reader, hist, mvars, script >>

\* *net = temp_net;  one field at a time, the guard dropped after the last
TaskSwapWrite(s) ==
  /\ task[s].pc = "write"
  /\ LET f == ManagerFields[task[s].wpos]
         last == task[s].wpos = Len(ManagerFields)
     IN  /\ arc' = [ arc EXCEPT ![net_mgr(s)][f] = task[s].temp[f] ]
         /\ task' = [ task EXCEPT ![s].wpos = IF last THEN 1 ELSE @ + 1,
                                  ![s].pc = IF last THEN "done" ELSE "write" ]
         /\ lock' = IF last THEN [ lock EXCEPT ![net_mgr(s)] = "free" ] ELSE lock
         /\ hist' = IF last THEN [ hist EXCEPT ![net_mgr(s)] = @ \cup { task[s].temp } ]
                    ELSE hist
  /\ UNCHANGED << reader, mvars, script >>

\* Status bar: if let Ok(net_mgr) = net_mgr_arc.lock() { ... }
ReaderLock ==
  /\ reader.pc = "idle"
  /\ current_session > 0
  /\ lock_acquirable(current_session)
  /\ lock' = [ lock EXCEPT ![current_session] = "reader" ]
  /\ reader' = [ pc |-> "peer_count",
                 snap |-> [ NoSnapshot EXCEPT !.session = current_session ] ]
  /\ UNCHANGED << arc, task, hist, mvars, script >>

ReaderPeerCount ==
  /\ reader.pc = "peer_count"
  /\ reader' = [ reader EXCEPT !.snap.peers = peer_count(arc[current_session]),
                               !.pc = "current_height" ]
  /\ UNCHANGED << arc, lock, task, hist, mvars, script >>

ReaderCurrentHeight ==
  /\ reader.pc = "current_height"
  /\ reader' = [ reader EXCEPT !.snap.current = arc[current_session].current_block_height,
                               !.pc = "network_height" ]
  /\ UNCHANGED << arc, lock, task, hist, mvars, script >>

ReaderNetworkHeight ==
  /\ reader.pc = "network_height"
  /\ reader' = [ reader EXCEPT !.snap.network = arc[current_session].network_block_height,
                               !.pc = "is_synced" ]
  /\ UNCHANGED << arc, lock, task, hist, mvars, script >>

\* (variant) drawing the frame clears the progress it has shown
reader_frame_end_clear(s) == [ arc EXCEPT ![s].sync_progress = 0 ]

\* The frame binds the guard immutably (`let net_mgr = net_mgr_arc.lock()`)
\* and calls only `&self` getters: the manager is left as it was read.
reader_frame_end(s) == arc

\* is_synced(), sync_progress(), and the guard dropped at the end of the block
ReaderSyncStatus ==
  /\ reader.pc = "is_synced"
  /\ reader' = [ reader EXCEPT !.snap.synced = is_synced(arc[current_session]),
                               !.snap.is_syncing = arc[current_session].is_syncing,
                               !.snap.progress = arc[current_session].sync_progress,
                               !.snap.valid = TRUE,
                               !.pc = "idle" ]
  /\ lock' = [ lock EXCEPT ![current_session] = "free" ]
  /\ arc' = reader_frame_end(current_session)
  /\ UNCHANGED << task, hist, mvars, script >>

NextApp ==
  \/ NewSession
  \/ \E s \in Sessions : TaskReadEndpoint(s)
  \/ \E s \in Sessions : TaskDiscovered(s)
  \/ \E s \in Sessions : TaskFetchPeer(s)
  \/ \E s \in Sessions : TaskFetchClientBuildFails(s)
  \/ \E s \in Sessions : TaskFetchExhausted(s)
  \/ \E s \in Sessions : TaskBootstrapReturns(s)
  \/ \E s \in Sessions : TaskSwapLock(s)
  \/ \E s \in Sessions : TaskSwapWrite(s)
  \/ ReaderLock
  \/ ReaderPeerCount
  \/ ReaderCurrentHeight
  \/ ReaderNetworkHeight
  \/ ReaderSyncStatus

SpecApp == Init /\ [][NextApp]_vars

\* The same task run against the bootstrap of fix_sync_logic.py, whose failed
\* fetch returns Err: the only text of bootstrap under which the Err arm of
\* the task's match is taken.
TaskBootstrapReturnsOrFails(s) ==
  /\ task[s].pc = "fold"
  /\ LET r == bootstrap_result_propagate(task[s].fres)
     IN  task' = [ task EXCEPT ![s].temp = bootstrap_fold_propagate(task[s].temp, task[s].fres),
                               ![s].result = r,
                               ![s].pc = task_match(r) ]
  /\ UNCHANGED << arc, lock, reader, hist, mvars, script >>

NextAppErr ==
  \/ NewSession
  \/ \E s \in Sessions : TaskReadEndpoint(s)
  \/ \E s \in Sessions : TaskDiscovered(s)
  \/ \E s \in Sessions : TaskFetchPeer(s)
  \/ \E s \in Sessions : TaskFetchClientBuildFails(s)
  \/ \E s \in Sessions : TaskFetchExhausted(s)
  \/ \E s \in Sessions : TaskBootstrapReturnsOrFails(s)
  \/ \E s \in Sessions : TaskSwapLock(s)
  \/ \E s \in Sessions : TaskSwapWrite(s)
  \/ ReaderLock
  \/ ReaderPeerCount
  \/ ReaderCurrentHeight
  \/ ReaderNetworkHeight
  \/ ReaderSyncStatus

SpecAppErr == Init /\ [][NextAppErr]_vars


Next ==
  \/ CallBootstrap
  \/ BootstrapDiscovered
  \/ CallRefresh
  \/ CallStartSync
  \/ CallFetch
  \/ FetchPeer
  \/ FetchClientBuildFails
  \/ FetchExhausted
  \/ BootstrapFold
  \/ RefreshFold
  \/ StartSyncFold
  \/ FetchReturn

Spec == Init /\ [][Next]_vars


\* ================================ is_synced on arbitrary field combinations
ProgressValues == { ProgressNone, 50, ProgressFull }

AnyManagers ==
  [ api_endpoint : { "e1" },
    connected_peers : PeerLists,
    is_syncing : BOOLEAN,
    sync_progress : ProgressValues,
    current_block_height : Heights,
    network_block_height : Heights ]

InitFields ==
  /\ net \in AnyManagers
  /\ pc = "idle"
  /\ op = "none"
  /\ nodes = <<>>
  /\ disc = NoDiscovery
  /\ idx = 1
  /\ log = <<>>
  /\ fres = NoResult
  /\ ret = "none"
  /\ err = ""
  /\ pre = net
  /\ fetched = FALSE
  /\ folded = FALSE
  /\ AInit
  /\ SInit

\* pub fn is_synced(&self) -> bool
CallIsSynced ==
  /\ pc = "idle"
  /\ op = "none"
  /\ op' = "is_synced"
  /\ ret' = IF is_synced(net) THEN "true" ELSE "false"
  /\ UNCHANGED << net, pc, nodes, disc, idx, log, fres, err, pre, fetched, folded, avars, script >>

SpecFields == InitFields /\ [][CallIsSynced]_vars

\* ======================== bootstrap alone, with every network call answered
NextBoot ==
  \/ CallBootstrap
  \/ BootstrapDiscovered
  \/ FetchPeer
  \/ FetchClientBuildFails
  \/ FetchExhausted
  \/ BootstrapFold

\* Every awaited request ends, by a response or by its timeout, and the code
\* after an await runs on.
FairBoot ==
  /\ WF_vars(BootstrapDiscovered)
  /\ WF_vars(FetchPeer \/ FetchClientBuildFails \/ FetchExhausted)
  /\ WF_vars(BootstrapFold)

SpecBoot == Init /\ [][NextBoot]_vars /\ FairBoot

\* ================== fetch_blockchain_info on registries of any address shape
\* "[::1]:24100" splits at ':' into "[", "", "1]" and "24100".
UrlAddrs == Addrs \cup { << "[", "", "1]", "24100" >> }

InitUrl ==
  /\ \E ps \in SeqsUpTo(UrlAddrs, MaxPeers) :
       net = [ new("e1") EXCEPT !.connected_peers = ps ]
  /\ pc = "fetch"
  /\ op = "fetch"
  /\ nodes = <<>>
  /\ disc = NoDiscovery
  /\ idx = 1
  /\ log = <<>>
  /\ fres = NoResult
  /\ ret = "none"
  /\ err = ""
  /\ pre = net
  /\ fetched = FALSE
  /\ folded = FALSE
  /\ AInit
  /\ SInit

NextUrl ==
  \/ FetchPeer
  \/ FetchClientBuildFails
  \/ FetchExhausted
  \/ FetchReturn

SpecUrl == InitUrl /\ [][NextUrl]_vars

\* ============================================ line-filter scripts on main.rs
\* A line of main.rs is its number in the input and what the scripts look
\* for in its text.
NumberedLines(ts) == [ k \in 1 .. Len(ts) |-> [ no |-> k, text |-> ts[k] ] ]

\* ------------------------------------------------------------ manual_fix.py
\* Texts that differ in the two substrings manual_fix.py tests for.
ManualFixTexts == { "other", "if_let_ok", "comment", "if_let_ok_comment" }

\* 'if let Ok(temp_net) = result {' in line
has_if_let_ok(line) == line.text \in { "if_let_ok", "if_let_ok_comment" }

\* '// Update the shared network manager with results' in line
has_update_comment(line) == line.text \in { "comment", "if_let_ok_comment" }

\* One iteration of `for i, line in enumerate(lines)` (i is 0-based).
manual_fix_iteration(sc) ==
  LET line == sc.lines[sc.i + 1]
  IN  IF sc.i < sc.skip_until
      THEN [ sc EXCEPT !.i = @ + 1 ]
      ELSE IF sc.i < Len(sc.lines) - 3 /\ has_if_let_ok(line)
      THEN [ sc EXCEPT !.skip_until = sc.i + 4, !.i = @ + 1 ]
      ELSE IF has_update_comment(line)
      THEN [ sc EXCEPT !.i = @ + 1 ]
      ELSE [ sc EXCEPT !.new_lines = Append(@, line), !.i = @ + 1 ]

InitManualFix ==
  /\ MInit /\ AInit
  /\ \E ts \in SeqsUpTo(ManualFixTexts, MaxLines) :
       script = [ name |-> "manual_fix", pc |-> "loop",
                  lines |-> NumberedLines(ts), new_lines |-> <<>>,
                  i |-> 0, skip_until |-> -1, main_rs |-> NumberedLines(ts) ]

ManualFixLine ==
  /\ script.name = "manual_fix" /\ script.pc = "loop"
  /\ script.i < Len(script.lines)
  /\ script' = manual_fix_iteration(script)
  /\ UNCHANGED << mvars, avars >>

\* with open('src/main.rs', 'w') as f: f.writelines(new_lines)
ManualFixWrite ==
  /\ script.name = "manual_fix" /\ script.pc = "loop"
  /\ script.i = Len(script.lines)
  /\ script' = [ script EXCEPT !.main_rs = script.new_lines, !.pc = "done" ]
  /\ UNCHANGED << mvars, avars >>

NextManualFix ==
  \/ ManualFixLine
  \/ ManualFixWrite

SpecManualFix == InitManualFix /\ [][NextManualFix]_vars

\* ---------------------------------------------------------------- add_qr.py
AddQrTexts == { "other", "copied" }

\* 'self.success_message = Some("Address copied to clipboard!' in lines[i]
has_copied_message(line) == line.text = "copied"

\* The nine lines appended after the closing brace.
QrBlock ==
  << [ no |-> 0, text |-> "blank" ],
     [ no |-> 0, text |-> "ui.add_space(20.0);" ],
     [ no |-> 0, text |-> "blank" ],
     [ no |-> 0, text |-> "// Display QR code" ],
     [ no |-> 0, text |-> "if let Ok(qr_code) = manager.get_address_qr_code(&address) {" ],
     [ no |-> 0, text |-> "ui.label(Scan QR Code:);" ],
     [ no |-> 0, text |-> "ui.add_space(10.0);" ],
     [ no |-> 0, text |-> "ui.monospace(&qr_code);" ],
     [ no |-> 0, text |-> "}" ] >>

\* One iteration of `while i < len(lines)` (i is 0-based); lines[i] past the
\* end raises IndexError, which ends the script before main.rs is written.
add_qr_iteration(sc) ==
  LET line == sc.lines[sc.i + 1]
      appended == Append(sc.new_lines, line)
  IN  IF has_copied_message(line)
      THEN IF sc.i + 1 < Len(sc.lines)
           THEN [ sc EXCEPT !.new_lines = Append(appended, sc.lines[sc.i + 2]) \o QrBlock,
                            !.i = @ + 2 ]
           ELSE [ sc EXCEPT !.new_lines = appended, !.i = @ + 1, !.pc = "IndexError" ]
      ELSE [ sc EXCEPT !.new_lines = appended, !.i = @ + 1 ]

InitAddQr ==
  /\ MInit /\ AInit
  /\ \E ts \in SeqsUpTo(AddQrTexts, MaxLines) :
       script = [ name |-> "add_qr", pc |-> "loop",
                  lines |-> NumberedLines(ts), new_lines |-> <<>>,
                  i |-> 0, skip_until |-> -1, main_rs |-> NumberedLines(ts) ]

AddQrLine ==
  /\ script.name = "add_qr" /\ script.pc = "loop"
  /\ script.i < Len(script.lines)
  /\ script' = add_qr_iteration(script)
  /\ UNCHANGED << mvars, avars >>

\* with open('src/main.rs', 'w') as f: f.writelines(new_lines)
AddQrWrite ==
  /\ script.name = "add_qr" /\ script.pc = "loop"
  /\ script.i >= Len(script.lines)
  /\ script' = [ script EXCEPT !.main_rs = script.new_lines, !.pc = "done" ]
  /\ UNCHANGED << mvars, avars >>

NextAddQr ==
  \/ AddQrLine
  \/ AddQrWrite

SpecAddQr == InitAddQr /\ [][NextAddQr]_vars

\* ==================================================================== claims

\* C1: in every fetch, the first request answered with a success status and
\* a well-formed body is the last request issued: requests go out in
\* registry order, every request before it failed, no request follows it,
\* and the fetch returns that peer's parsed status.
C1_FirstSuccessWins ==
  /\ \A j \in 1 .. Len(log) :
       /\ log[j].peer = j
       /\ j <= Len(net.connected_peers)
       /\ log[j].url.host = Head(net.connected_peers[j])
  /\ \A k \in 1 .. Len(log) :
       log[k].resp.kind = "ok" =>
         /\ k = Len(log)
         /\ \A j \in 1 .. k - 1 : log[j].resp.kind # "ok"
         /\ fres = [ kind |-> "Ok", height |-> log[k].resp.height, err |-> "" ]
         /\ (pc = "idle" /\ op = "fetch" => ret = "Ok")

\* C1 witness: two peers, the first answered successfully, the fetch has
\* returned and the second peer was never asked.
C1_Witness ==
  /\ pc = "idle" /\ op = "fetch" /\ ret = "Ok"
  /\ Len(net.connected_peers) = 2
  /\ Len(log) = 1
  /\ log[1].resp = [ kind |-> "ok", height |-> 2 ]
  /\ fres.height = 2

\* C2 (as claimed): a fetch fails only after every peer of the registry has
\* been sent a request.
C2_FailsOnlyAfterEveryPeer ==
  (pc = "fold" /\ fres.kind = "Err") => Len(log) = Len(net.connected_peers)

\* C3 (as claimed): on an empty registry the fetch fails with the
\* no-peers-available error and issues no request.
C3_EmptyRegistryNoPeersAvailable ==
  (pc = "fold" /\ net.connected_peers = <<>>) =>
    /\ fres.kind = "Err"
    /\ fres.err = ErrNoPeersConnected
    /\ log = <<>>

\* C3 (amended): on an empty registry the fetch fails at once, with no
\* request issued, with the same error as an exhausted peer list.
C3_EmptyRegistryFailsAtOnce ==
  (pc = "fold" /\ net.connected_peers = <<>>) =>
    /\ fres = [ kind |-> "Err", height |-> 0, err |-> ErrNoPeersResponded ]
    /\ log = <<>>

\* C3 witness: a fetch called on a manager with an empty registry has returned.
C3_Witness ==
  /\ pc = "fold" /\ op = "fetch"
  /\ net.connected_peers = <<>>
  /\ fres.kind = "Err"

\* C4: is_synced() answers true exactly when is_syncing is false,
\* sync_progress is at least 1.0 and current_block_height is positive; it
\* answers false whenever current_block_height is 0.
C4_IsSyncedIff ==
  op = "is_synced" =>
    /\ (ret = "true") <=>
         (net.is_syncing = FALSE /\ net.sync_progress >= 100 /\ net.current_block_height > 0)
    /\ (net.current_block_height = 0 => ret = "false")
    /\ ret \in { "true", "false" }

\* C4 witness: is_synced() was asked on a manager that is not syncing, has
\* full progress and height 0.
C4_Witness ==
  /\ op = "is_synced"
  /\ ~net.is_syncing /\ net.sync_progress = 100 /\ net.current_block_height = 0
  /\ net.connected_peers # <<>>
  /\ ret = "false"

\* C5: after a bootstrap whose fetch succeeded with status S, is_syncing is
\* false, sync_progress is 1.0 and both heights equal S.height.
C5_BootstrapSuccessState ==
  (pc = "idle" /\ op = "bootstrap" /\ fres.kind = "Ok") =>
    /\ net.is_syncing = FALSE
    /\ net.sync_progress = 100
    /\ net.current_block_height = fres.height
    /\ net.network_block_height = fres.height
    /\ ret = "Ok"

\* C5 witness: a bootstrap on a manager that knew height 1 has folded a
\* status of height 2 obtained from the second peer.
C5_Witness ==
  /\ pc = "idle" /\ op = "bootstrap" /\ fres.kind = "Ok"
  /\ fres.height = 2
  /\ pre.current_block_height = 1
  /\ Len(log) = 2
  /\ net.current_block_height = 2

\* C6 (as claimed): after a bootstrap whose fetch failed, is_syncing is false
\* and sync_progress has the value it had before the bootstrap began.
C6_FailureHoldsProgress ==
  (pc = "idle" /\ op = "bootstrap" /\ fres.kind = "Err") =>
    /\ net.is_syncing = FALSE
    /\ net.sync_progress = pre.sync_progress
    /\ net.current_block_height = 0

\* C6 (amended): after a bootstrap whose fetch failed, is_syncing is false,
\* sync_progress is 1.0 whatever it was before, both heights are 0 and
\* bootstrap has returned Ok.
C6_FailureSetsFullProgress ==
  (pc = "idle" /\ op = "bootstrap" /\ fres.kind = "Err") =>
    /\ net.is_syncing = FALSE
    /\ net.sync_progress = 100
    /\ net.current_block_height = 0
    /\ net.network_block_height = 0
    /\ ret = "Ok"

\* C6 witness: a bootstrap begun with sync_progress 0.0 has ended after its
\* fetch failed at both peers.
C6_Witness ==
  /\ pc = "idle" /\ op = "bootstrap" /\ fres.kind = "Err"
  /\ pre.sync_progress = 0
  /\ Len(log) = 2
  /\ net.sync_progress = 100

\* C7: with a non-empty registry and no chain status known (no fetch has
\* succeeded yet, or the last bootstrap's fetch failed), is_synced() is false.
C7_HeightUnknownNotSynced ==
  /\ (net.connected_peers # <<>> /\ ~fetched) => ~is_synced(net)
  /\ (pc = "idle" /\ op = "bootstrap" /\ fres.kind = "Err" /\ net.connected_peers # <<>>)
       => ~is_synced(net)

\* C7 witness: a manager that was synced at height 1 has been bootstrapped
\* again, the fetch failed at every peer, and it is left connected to two
\* peers with full progress and not syncing.
C7_Witness ==
  /\ pc = "idle" /\ op = "bootstrap" /\ fres.err = ErrNoPeersResponded
  /\ Len(net.connected_peers) = 2 /\ Len(log) = 2
  /\ pre.current_block_height = 1
  /\ ~net.is_syncing /\ net.sync_progress = 100

C9_DiscoveryReplacesRegistry ==
  (op = "bootstrap" /\ pc # "discover" /\ disc.ok) => net.connected_peers = disc.peers

\* C9 witness: a manager with a peer was bootstrapped with a fallback node,
\* discovery answered the empty list, and the bootstrap has ended.
C9_Witness ==
  /\ op = "bootstrap" /\ pc = "idle" /\ disc.ok
  /\ disc.peers = <<>>
  /\ pre.connected_peers # <<>>
  /\ nodes # <<>>
  /\ net.connected_peers = <<>>

\* The fields a complete snapshot of manager m shows.
snapshot_of(m, s) ==
  [ valid |-> TRUE, session |-> s,
    peers |-> Len(m.connected_peers),
    current |-> m.current_block_height,
    network |-> m.network_block_height,
    is_syncing |-> m.is_syncing,
    progress |-> m.sync_progress,
    synced |-> (~m.is_syncing /\ m.sync_progress >= 100 /\ m.current_block_height > 0) ]

\* C10: every completed status-bar snapshot equals one complete manager the
\* session's Mutex has held: its two heights agree, and a positive height
\* comes with is_syncing false and sync_progress 1.0. The reader reads only
\* while it holds the Mutex, and the task writes only while it holds it.
C10_NoTornSnapshot ==
  /\ reader.snap.valid =>
       /\ \E m \in hist[reader.snap.session] :
            reader.snap = snapshot_of(m, reader.snap.session)
       /\ reader.snap.network = reader.snap.current
       /\ (reader.snap.current > 0 =>
             ~reader.snap.is_syncing /\ reader.snap.progress = 100)
  /\ reader.pc # "idle" => lock[current_session] = "reader"
  /\ \A s \in Sessions : task[s].pc = "write" <=> lock[s] = "task"

\* C10 witness: the reader is in the middle of a frame, holding the Mutex
\* with the fresh state half read, while the session's task has finished its
\* network calls with a fetched height and waits for the Mutex to swap.
C10_Witness ==
  /\ reader.pc = "network_height"
  /\ reader.snap.session = 1
  /\ task[1].pc = "swap"
  /\ task[1].temp.current_block_height = 2
  /\ arc[1].current_block_height = 0

\* C11: while the bootstrap task of a session is suspended on a network call
\* (discovery or a peer status request) it does not hold the session's Mutex;
\* it takes the Mutex only after bootstrap has returned. A reader that is
\* between frames therefore finds the Mutex of the current session free.
C11_NoLockAcrossNetworkCall ==
  \A s \in Sessions :
    task[s].pc \in { "discover", "fetch" } =>
      /\ lock[net_mgr(s)] # "task"
      /\ (reader.pc = "idle" /\ net_mgr(s) = current_session
            => lock_acquirable(current_session))

\* C11 witness: the task has had its first peer request fail and is suspended
\* on the second one while the reader holds the Mutex in the middle of a frame.
C11_Witness ==
  /\ Len(arc) = 1
  /\ task[1].pc = "fetch" /\ task[1].idx = 2
  /\ Len(task[1].temp.connected_peers) = 2
  /\ current_session = 1
  /\ reader.pc = "is_synced"
  /\ lock[1] = "reader"

C20_SessionsIsolated ==
  \A s \in Sessions :
    /\ (task[s].pc \notin { "write", "done" } =>
          /\ arc[s] = new(arc[s].api_endpoint)
          /\ arc[s].connected_peers = <<>>
          /\ arc[s].current_block_height = 0 /\ arc[s].network_block_height = 0
          /\ ~is_synced(arc[s]))
    /\ (task[s].pc = "done" => arc[s] = task[s].temp)
    /\ hist[s] \subseteq { new(arc[s].api_endpoint), task[s].temp }

\* C20 witness: the task of the first session is in the middle of swapping
\* in a fetched height after a second session was created; the second session
\* still has its fresh manager and its own task is in its fetch loop.
C20_Witness ==
  /\ Len(arc) = 2
  /\ task[1].pc = "write" /\ task[1].wpos = 6
  /\ task[1].temp.current_block_height = 2
  /\ arc[1].current_block_height = 2
  /\ task[2].pc = "fetch"
  /\ arc[2] = new(arc[2].api_endpoint)

\* C13: a refresh that fails, on an empty registry or because no peer
\* answered successfully, returns Err and leaves every field of the manager
\* as it was when refresh was called.
C13_FailedRefreshChangesNothing ==
  (op = "refresh" /\ pc = "idle" /\ fres.kind # "Ok") =>
    /\ ret = "Err"
    /\ net = pre

\* C13 witness: a manager synced at height 2 with two peers was refreshed,
\* both peers failed, and refresh has returned.
C13_Witness ==
  /\ op = "refresh" /\ pc = "idle" /\ ret = "Err"
  /\ fres.err = ErrNoPeersResponded
  /\ Len(log) = 2
  /\ pre.current_block_height = 2 /\ pre.sync_progress = 100
  /\ net.current_block_height = 2

\* C14: refresh, start_sync and the fetch run no discovery and leave the
\* registry as it was when they were called, at every step and whatever the
\* outcome; a bootstrap leaves it untouched until discovery has returned and
\* then holds either the discovered list or the old registry followed by the
\* fallback nodes.
C14_RegistryFrame ==
  /\ op \in { "refresh", "start_sync", "fetch" } =>
       /\ net.connected_peers = pre.connected_peers
       /\ disc = NoDiscovery
  /\ (op = "bootstrap" /\ pc = "discover") => net.connected_peers = pre.connected_peers
  /\ (op = "bootstrap" /\ pc # "discover") =>
       net.connected_peers =
         IF disc.ok THEN disc.peers ELSE pre.connected_peers \o nodes

\* C14 witness: a refresh on two peers succeeded at the second peer and
\* changed the height; the registry still holds both peers.
C14_Witness ==
  /\ op = "refresh" /\ pc = "idle" /\ ret = "Ok"
  /\ Len(log) = 2
  /\ net.current_block_height # pre.current_block_height
  /\ Len(net.connected_peers) = 2

\* C15 (as claimed): once a fetched status has been folded into the manager,
\* is_syncing false comes with sync_progress 1.0.
C15_IdleMeansFullProgress ==
  (folded /\ ~net.is_syncing) => net.sync_progress = 100

\* C16: current_block_height is positive only on a manager into which a
\* successfully fetched status has been folded; before that, whatever
\* discoveries, fallbacks and fetches have failed, it is 0.
C16_HeightOnlyAfterFold ==
  /\ net.current_block_height > 0 => folded
  /\ ~folded => net.current_block_height = 0 /\ net.network_block_height = 0

\* C16 witness: discovery failed, two fallback nodes were added, both
\* requests failed, bootstrap has returned and no status was ever folded.
C16_Witness ==
  /\ op = "bootstrap" /\ pc = "idle"
  /\ ~folded
  /\ ~disc.ok /\ Len(nodes) = 2
  /\ Len(log) = 2
  /\ net.current_block_height = 0

C19_RequestGoesToPeerHost ==
  \A j \in 1 .. Len(log) :
    LET address == net.connected_peers[log[j].peer]
    IN  /\ log[j].url.port = 24101
        /\ log[j].url.path = "/blockchain/info"
        /\ << log[j].url.host >> =
             IF Len(address) = 1 THEN address ELSE SubSeq(address, 1, Len(address) - 1)

\* C21: a bootstrap that has ended with an empty registry has issued no
\* status request and leaves current_block_height 0, peer count 0 and
\* is_synced() false.
C21_EmptyBootstrap ==
  (op = "bootstrap" /\ pc = "idle" /\ net.connected_peers = <<>>) =>
    /\ log = <<>>
    /\ net.current_block_height = 0
    /\ peer_count(net) = 0
    /\ ~is_synced(net)
    /\ fres.kind = "Err"

\* C21 witness: a manager synced at height 2 was bootstrapped again with an
\* empty fallback list, discovery answered the empty list, and bootstrap
\* has ended.
C21_Witness ==
  /\ op = "bootstrap" /\ pc = "idle"
  /\ net.connected_peers = <<>>
  /\ nodes = <<>>
  /\ disc.ok
  /\ pre.current_block_height = 2
  /\ pre.connected_peers # <<>>

\* C24: sync_progress is between 0.0 and 1.0 in every reachable state.
C24_ProgressInRange ==
  /\ net.sync_progress >= 0
  /\ net.sync_progress <= 100
  /\ pre.sync_progress >= 0
  /\ pre.sync_progress <= 100

\* C24 witness: a start_sync is in flight on a manager that had full
\* progress; progress is back at 0.0 and the first request has failed.
C24_Witness ==
  /\ op = "start_sync" /\ pc = "fetch"
  /\ pre.sync_progress = 100
  /\ net.sync_progress = 0 /\ net.is_syncing
  /\ Len(log) = 1

\* C25: the j-th request of a fetch goes to the j-th registry entry, so a
\* fetch over n peers issues at most n requests; when the fetch has returned,
\* its result is the exhausted-peers failure exactly when n requests were
\* issued and every one of them failed.
C25_AtMostOneRequestPerPeer ==
  /\ Len(log) <= Len(net.connected_peers)
  /\ \A j \in 1 .. Len(log) : log[j].peer = j
  /\ pc = "fold" =>
       ( fres = [ kind |-> "Err", height |-> 0, err |-> ErrNoPeersResponded ]
         <=> /\ Len(log) = Len(net.connected_peers)
             /\ \A j \in 1 .. Len(log) : log[j].resp.kind # "ok" )

\* C25 witness: a fetch over two peers has returned the exhausted-peers
\* failure after two failed requests.
C25_Witness ==
  /\ pc = "fold" /\ op = "fetch"
  /\ Len(net.connected_peers) = 2
  /\ Len(log) = 2
  /\ log[1].resp.kind = "timeout" /\ log[2].resp.kind = "malformed"
  /\ fres.err = ErrNoPeersResponded

\* C27: after a refresh whose fetch succeeded with status S, both heights
\* equal S.height, is_syncing is false and sync_progress is 1.0, whatever the
\* manager was before; with S.height > 0 is_synced() is true.
C27_RefreshSuccessState ==
  (op = "refresh" /\ pc = "idle" /\ fres.kind = "Ok") =>
    /\ ret = "Ok"
    /\ net.current_block_height = fres.height
    /\ net.network_block_height = fres.height
    /\ ~net.is_syncing
    /\ net.sync_progress = 100
    /\ (fres.height > 0 => is_synced(net))

\* C27 witness: a manager left by a failed start_sync with height 0 and
\* progress 0.0 was refreshed, the second peer answered height 2, and
\* is_synced() is true.
C27_Witness ==
  /\ op = "refresh" /\ pc = "idle" /\ fres.kind = "Ok"
  /\ pre.current_block_height = 0 /\ pre.sync_progress = 0
  /\ Len(log) = 2
  /\ fres.height = 2
  /\ is_synced(net)

\* C28: current_block_height equals network_block_height in every
\* reachable state.
C28_HeightsEqual ==
  /\ net.current_block_height = net.network_block_height
  /\ pre.current_block_height = pre.network_block_height

\* C28 witness: a start_sync on a manager at height 1 has ended with both
\* heights at 2.
C28_Witness ==
  /\ op = "start_sync" /\ pc = "idle" /\ ret = "Ok"
  /\ pre.current_block_height = 1
  /\ net.current_block_height = 2 /\ net.network_block_height = 2

\* C29: after a bootstrap is_synced() is true exactly when the fetch
\* succeeded with a height above 0; a fetch that succeeded with height 0 and
\* a fetch that failed leave the same fields: not syncing, progress 1.0,
\* both heights 0, the registry as populated.
C29_SyncedIffPositiveHeight ==
  (op = "bootstrap" /\ pc = "idle") =>
    /\ is_synced(net) <=> (fres.kind = "Ok" /\ fres.height > 0)
    /\ ((fres.kind = "Err" \/ (fres.kind = "Ok" /\ fres.height = 0)) =>
          net = [ bootstrap_populate(pre, disc, nodes) EXCEPT
                    !.is_syncing = FALSE,
                    !.sync_progress = 100,
                    !.current_block_height = 0,
                    !.network_block_height = 0 ])

\* C29 witness: a bootstrap whose only peer answered successfully with
\* height 0 has ended, and is_synced() is false.
C29_Witness ==
  /\ op = "bootstrap" /\ pc = "idle"
  /\ fres = [ kind |-> "Ok", height |-> 0, err |-> "" ]
  /\ Len(net.connected_peers) = 1
  /\ ~is_synced(net)
  /\ ret = "Ok"

C23_ReaderNeverWrites ==
  [][ /\ (reader' # reader => arc' = arc)
      /\ (arc' # arc =>
            \/ /\ Len(arc') = Len(arc) + 1
               /\ SubSeq(arc', 1, Len(arc)) = arc
               /\ arc'[Len(arc')] = new(arc'[Len(arc')].api_endpoint)
            \/ \E s \in Sessions :
                 /\ task[s].pc = "write"
                 /\ lock[net_mgr(s)] = "task"
                 /\ task'[s] # task[s]
                 /\ reader' = reader
                 /\ \A t \in Sessions \ { net_mgr(s) } : arc'[t] = arc[t]) ]_vars

\* a frame has been drawn to its end from the manager a task has swapped in
C23_Witness ==
  /\ Len(arc) >= 1
  /\ reader.pc = "idle" /\ reader.snap.valid
  /\ reader.snap.session = current_session
  /\ task[current_session].pc = "done"
  /\ reader.snap.progress = 100 /\ reader.snap.peers = 0
  /\ arc[current_session] = task[current_session].temp
  /\ lock[current_session] = "free"

\* C26: the task changes the shared manager once, after its bootstrap has
\* returned and under the lock: until then the manager is the one that was
\* constructed, it takes at most the two values before and after, and every
\* frame the reader draws is wholly the state before or wholly the state
\* after (no populated registry with heights not yet folded).
C26_OneAtomicSwap ==
  \A s \in Sessions :
    LET fresh == new(arc[s].api_endpoint)
    IN  /\ Cardinality(hist[s]) <= 2
        /\ hist[s] \subseteq { fresh, task[s].temp }
        /\ (task[s].pc \in { "start", "discover", "fetch", "fold", "swap" } =>
              arc[s] = fresh)
        /\ (task[s].pc = "write" => lock[s] = "task")
        /\ (task[s].pc = "done" /\ task[s].result = "Ok" => arc[s] = task[s].temp)
        /\ ((reader.snap.valid /\ reader.snap.session = s) =>
              \/ reader.snap = snapshot_of(fresh, s)
              \/ /\ task[s].pc = "done"
                 /\ reader.snap = snapshot_of(task[s].temp, s))

\* a frame drawn after the swap shows the registry and the folded height together
C26_Witness ==
  /\ Len(arc) >= 1
  /\ task[1].pc = "done"
  /\ reader.snap.valid /\ reader.snap.session = 1
  /\ reader.snap.peers = 1 /\ reader.snap.current = 2 /\ reader.snap.synced
  /\ Cardinality(hist[1]) = 2

\* C30: when the bootstrap run by the task has returned an error, the task
\* ends without taking the lock again and the shared manager is still the
\* one constructed for the session: the only value it ever had, and what
\* every frame of the reader shows, whatever the failed bootstrap has
\* written into its temporary manager.
C30_FailedBootstrapNotSwapped ==
  \A s \in Sessions :
    task[s].result = "Err" =>
      /\ task[s].pc = "done"
      /\ arc[s] = new(arc[s].api_endpoint)
      /\ hist[s] = { new(arc[s].api_endpoint) }
      /\ lock[s] # "task"
      /\ ((reader.snap.valid /\ reader.snap.session = s) =>
            reader.snap = snapshot_of(new(arc[s].api_endpoint), s))

\* the failed bootstrap has populated and flagged its temporary manager, and a
\* frame drawn afterwards still shows the constructed one
C30_Witness ==
  /\ Len(arc) >= 1
  /\ task[1].result = "Err"
  /\ Len(task[1].temp.connected_peers) >= 1
  /\ task[1].temp.is_syncing
  /\ reader.pc = "idle" /\ reader.snap.valid /\ reader.snap.session = 1
  /\ reader.snap.peers = 0 /\ ~reader.snap.is_syncing

\* C34: start_sync on an empty registry returns the no-peers error with no
\* field changed and no request; on a non-empty registry is_syncing is raised
\* (with sync_progress 0.0) while the fetch runs, and it returns with
\* is_syncing false: on success with sync_progress 1.0 and both heights at
\* the fetched height, on failure with an error, sync_progress 0.0 and both
\* heights 0, whatever height was known before.
C34_StartSyncOutcomes ==
  op = "start_sync" =>
    /\ net.connected_peers = pre.connected_peers
    /\ net.api_endpoint = pre.api_endpoint
    /\ (pre.connected_peers = <<>> =>
          /\ pc = "idle" /\ ret = "Err" /\ err = ErrNoPeersConnected
          /\ net = pre /\ log = <<>>)
    /\ (pc \in { "fetch", "fold" } =>
          /\ pre.connected_peers # <<>>
          /\ net.is_syncing /\ net.sync_progress = 0
          /\ net.current_block_height = pre.current_block_height
          /\ net.network_block_height = pre.network_block_height)
    /\ ((pc = "idle" /\ pre.connected_peers # <<>>) =>
          /\ ~net.is_syncing
          /\ ret \in { "Ok", "Err" }
          /\ (ret = "Ok" <=> fres.kind = "Ok")
          /\ (ret = "Ok" =>
                /\ net.sync_progress = 100
                /\ net.current_block_height = fres.height
                /\ net.network_block_height = fres.height)
          /\ (ret = "Err" =>
                /\ net.sync_progress = 0
                /\ net.current_block_height = 0
                /\ net.network_block_height = 0))

\* C34 witness: a start_sync on a manager that knew height 2 has failed
\* after a request and has reset both heights.
C34_Witness ==
  /\ op = "start_sync" /\ pc = "idle" /\ ret = "Err"
  /\ pre.current_block_height = 2 /\ pre.sync_progress = 100
  /\ Len(log) >= 1
  /\ net.current_block_height = 0 /\ net.sync_progress = 0

\* C35: no step changes the api_endpoint of a shared manager: the temporary
\* manager of a task carries the endpoint of the manager it was spawned for,
\* so the swap, after a successful or a failed fetch, writes the endpoint
\* that was there.
C35_EndpointKept ==
  /\ [] ( \A s \in Sessions :
            /\ (task[s].pc \notin { "start", "panicked" } =>
                  task[s].temp.api_endpoint = arc[s].api_endpoint)
            /\ \A m \in hist[s] : m.api_endpoint = arc[s].api_endpoint )
  /\ [][ \A s \in Sessions : arc'[s].api_endpoint = arc[s].api_endpoint ]_vars

\* two sessions with different endpoints; the task of the first has swapped
\* in a populated manager after the second was created
C35_Witness ==
  /\ Len(arc) = 2
  /\ arc[1].api_endpoint = "e2" /\ arc[2].api_endpoint = "e1"
  /\ task[1].pc = "done" /\ task[2].pc = "done"
  /\ Len(arc[1].connected_peers) >= 1
  /\ arc[2].current_block_height = 0 /\ arc[2].sync_progress = 100

\* C32: no frame of the reader shows is_syncing true: no shared manager, and
\* no value a shared manager has had, has the flag raised. The flag is
\* raised only on the temporary manager of a task whose bootstrap has
\* failed, and that manager is not swapped in.
C32_ReaderNeverSeesSyncing ==
  /\ ~reader.snap.is_syncing
  /\ \A s \in Sessions :
       /\ ~arc[s].is_syncing
       /\ \A m \in hist[s] : ~m.is_syncing
       /\ (task[s].temp.is_syncing =>
             /\ task[s].result = "Err" /\ task[s].pc = "done"
             /\ arc[s] # task[s].temp)
       /\ (task[s].pc \in { "swap", "write" } => ~task[s].temp.is_syncing)

\* the reader has drawn a whole frame of a session whose task has failed
\* with is_syncing raised on its temporary manager, after another session's
\* task has swapped in its result
C32_Witness ==
  /\ Len(arc) = 2
  /\ task[1].pc = "done" /\ task[1].result = "Ok"
  /\ task[2].pc = "done" /\ task[2].result = "Err" /\ task[2].temp.is_syncing
  /\ reader.pc = "idle" /\ reader.snap.valid /\ reader.snap.session = 2
  /\ ~reader.snap.is_syncing /\ reader.snap.progress = 0

C36_RemovesExactlyThese ==
  (script.name = "manual_fix" /\ script.pc = "done") =>
    LET n == Len(script.lines)
        Kept(l) ==
          /\ ~has_update_comment(l)
          /\ ~\E j \in 1 .. n :
                /\ has_if_let_ok(script.lines[j])
                /\ j + 3 <= n
                /\ j <= l.no /\ l.no <= j + 3
    IN  script.main_rs = SelectSeq(script.lines, Kept)

\* C37 (as claimed): add_qr.py ends having written main.rs for every input;
\* the input lines are all there, once and in order; there is one QR block
\* for each line with the copied-message text; and the block of such a line
\* comes right after the line that follows it.
C37_InsertsOneBlockPerMarker ==
  (script.name = "add_qr" /\ script.pc # "loop") =>
    LET out == script.main_rs
        n == Len(script.lines)
        IsInput(l) == l.no > 0
        IsBlockHead(l) == l = QrBlock[4]
        IsMarker(l) == has_copied_message(l)
        pos(k) == CHOOSE q \in 1 .. Len(out) : out[q].no = k
    IN  /\ script.pc = "done"
        /\ SelectSeq(out, IsInput) = script.lines
        /\ Len(SelectSeq(out, IsBlockHead)) = Len(SelectSeq(script.lines, IsMarker))
        /\ \A k \in 1 .. n - 1 :
             has_copied_message(script.lines[k]) =>
               /\ pos(k + 1) + Len(QrBlock) <= Len(out)
               /\ SubSeq(out, pos(k + 1) + 1, pos(k + 1) + Len(QrBlock)) = QrBlock


====
